---- MODULE Spec2Model ----
(***************************************************************************)
(* The extension PrivacyService of AICON-project/quorum: the registry      *)
(* currentContracts guarded by service.mu, and the three watcher           *)
(* goroutines started by initialise (new extension, cancellation,          *)
(* completion).  Two variants of the service are given:                    *)
(*   "backend"  = src/extension/backend.go                                 *)
(*   "part_000" = src/unnamed/part_000                                     *)
(* The variable impl says which of the two is running; TwinSpec runs both  *)
(* side by side on the same logs, one whole event per step.                *)
(*                                                                         *)
(* Init is the service after initialise has returned: the registry is      *)
(* what dataHandler.Load() gave New, the mutex is free and the three       *)
(* goroutines are launched but have not run yet.                           *)
(*                                                                         *)
(* Every statement of a handler that calls an external collaborator is one *)
(* step; its outcome (success or failure) is chosen by the environment.    *)
(* A method call on the nil result of a failed call (Sender on the tx of a *)
(* failed TransactionByHash, Creator on the caller of a failed Caller,     *)
(* SetSharedStateHash on the transactor of a failed Transactor) either     *)
(* panics, which ends the process, or returns an error; both outcomes are  *)
(* in the model.  tx.Data() reads the payload through tx and panics on nil.*)
(***************************************************************************)
EXTENDS Integers, FiniteSets, Sequences, TLC

(* ---------------------------- bounds ----------------------------------- *)
\* number of distinct management-contract addresses the logs can carry
NumAddrs == 1
\* number of logs delivered to the two variants run side by side
MaxLogs == 4

Addrs == 1..NumAddrs

Impls == {"backend", "part_000"}
Watchers == {"new", "cancel", "comp"}
Free == "free"

(* ---------------------------- values ----------------------------------- *)
\* Addresses, senders and payloads are small integers; 0 is Go's zero value.
\* the transaction behind a creation log of address a (TransactionByHash),
\* its signer (QuorumPrivateTxSigner.Sender) and its payload (tx.Data())
TxSender(a) == 10 + a
TxData(a) == 20 + a
\* the contract a decodable creation log names (UnpackNewExtensionCreatedLog)
ToExtend(a) == 30 + a

\* ExtensionContract as built by watchForNewContracts from the log of
\* address a and its transaction
NewExtensionContract_Swapped(a) ==
  [Address |-> a,
   Initiator |-> TxSender(a),
   ManagementContractAddress |-> ToExtend(a),
   CreationData |-> TxData(a)]
NewExtensionContract(a) ==
  [Address |-> ToExtend(a),
   Initiator |-> TxSender(a),
   ManagementContractAddress |-> a,
   CreationData |-> TxData(a)]

\* a nil *ExtensionContract (no entry held by a handler)
NilEntry ==
  [Address |-> 0, Initiator |-> 0,
   ManagementContractAddress |-> 0, CreationData |-> 0]

\* map[common.Address]*ExtensionContract: a function whose domain is the
\* set of keys present
EmptyMap == [a \in {} |-> NilEntry]
Has(reg, a) == a \in DOMAIN reg

(* registry operations of the handlers *)
InsertRecord_Toggle(reg, a, rec) ==
  IF a \in DOMAIN reg
  THEN [x \in (DOMAIN reg) \ {a} |-> reg[x]]
  ELSE [x \in (DOMAIN reg) \cup {a} |-> IF x = a THEN rec ELSE reg[x]]
InsertRecord(reg, a, rec) ==
  [x \in (DOMAIN reg) \cup {a} |-> IF x = a THEN rec ELSE reg[x]]

DeleteRecord_Keep(reg, a) == reg
DeleteRecord(reg, a) == [x \in (DOMAIN reg) \ {a} |-> reg[x]]

\* the maps dataHandler.Load() can return to New: what an earlier run saved
\* after the creation logs it processed
LoadableMaps ==
  {EmptyMap} \cup {InsertRecord(EmptyMap, a, NewExtensionContract(a)) : a \in Addrs}

\* sync.Mutex.Lock succeeds only on a free mutex
CanLock_Always(m) == TRUE
CanLock(m) == m = Free

(* ---------------------------- state ------------------------------------ *)
VARIABLES
  impl,              \* which of the two given variants runs
  crashed,           \* a panic in a goroutine has ended the process
  currentContracts,  \* service.currentContracts
  mu,                \* service.mu: Free or the watcher holding it
  disk,              \* the snapshot of the last Save that succeeded
  lastSaveArg,       \* the snapshot passed to the last Save call
  lastSaveOk,        \* whether the last Save call succeeded
  pc,                \* position of each watcher goroutine
  stopState,         \* Stop(): "idle", "sending" (inside stopFeed.Send), "returned"
  stopSubs,          \* watchers subscribed to service.stopFeed
  stopPending,       \* subscribers the running stopFeed.Send has yet to reach
  errLogged,         \* watchers whose last pass through select logged an
                     \* error of their log subscription
  newLog,            \* watchForNewContracts: foundLog
  newTx,             \* ... tx: "none", "ok" or "nil"
  newExt,            \* ... newContractExtension
  newIsSender,       \* ... isSender: "none", "true", "false"
  newParties,        \* ... GetParticipants: "none", "ok", "failed"
  newVotes,          \* approval votes submitted for the current creation log
  newSaveErr,        \* ... err of dataHandler.Save: "none", "ok", "failed"
  cancelLog,         \* watchForCancelledContracts: l
  cancelFound,       \* ... ok of the registry lookup: "none", "true", "false"
  cancelCalls,       \* delete / Save made for the current cancellation log
  compLog,           \* watchForCompletionEvents: l
  compEntry,         \* ... extensionEntry
  compFound,         \* ... ok of the registry lookup: "none", "true", "false"
  compLocal,         \* ... results of the state-share steps still in use
  compCalls,         \* steps of the state share called for the current event
  compExists,        \* what accountManager.Exists returned: "none", "true", "false"
  compFailed,        \* a step called for the current event has failed
  compLate,          \* an external call was made after a step had failed
  lastCreated,       \* per address: the last event that had an effect on it
                     \* was a creation (FALSE: a cancellation, or no event)
  twin,              \* the two variants run side by side on the same logs:
                     \* per variant its registry, the snapshots it has
                     \* passed to Save, and whether a panic has ended it
  twinLogs           \* logs delivered to the two so far

vars ==
  <<impl, crashed, currentContracts, mu, disk, lastSaveArg, lastSaveOk,
    pc, stopState, stopSubs, stopPending, errLogged,
    newLog, newTx, newExt, newIsSender, newParties, newVotes, newSaveErr,
    cancelLog, cancelFound, cancelCalls,
    compLog, compEntry, compFound, compLocal, compCalls,
    compExists, compFailed, compLate, lastCreated, twin, twinLogs>>

svcVars == <<impl>>
regVars == <<currentContracts, disk, lastSaveArg, lastSaveOk>>
stopVars == <<stopState, stopSubs, stopPending>>
newVars == <<newLog, newTx, newExt, newIsSender, newParties, newVotes, newSaveErr>>
cancelVars == <<cancelLog, cancelFound, cancelCalls>>
twinVars == <<twin, twinLogs>>
compVars == <<compLog, compEntry, compFound, compLocal, compCalls, compExists,
              compFailed, compLate>>

\* a creation log: the contract address that emitted it and whether its
\* payload decodes; NoLog is "no log in hand"
NewLogs == [Address : Addrs, Decodes : BOOLEAN]
NoNewLog == [Address |-> 0, Decodes |-> FALSE]
\* of a cancellation or completion log the handlers read the address only;
\* 0 is "no log in hand"

\* the steps of the state share, in the order the completion handler makes them
CompSteps ==
  <<"Caller", "Creator", "Exists", "GetParticipants", "GenerateTransactOptions",
    "TargetRecipientPublicKeyHash", "DecodeString", "Receive", "ContractToExtend",
    "GetAddressStateFromBlock", "Send", "Transactor", "SetSharedStateHash">>
CompStepSet == {CompSteps[i] : i \in 1..Len(CompSteps)}
\* all but the base64 decoding are calls of an external collaborator
ExternalSteps == CompStepSet \ {"DecodeString"}
StepIndex(s) == CHOOSE i \in 1..Len(CompSteps) : CompSteps[i] = s

\* results of the state-share steps a later step reads
\* caller, transactor: "ok" or "nil"; the others: "ok" when every call the
\* value comes from succeeded, "bad" when it is or derives from the zero
\* value a failed call left; "none" outside the value's use
NoLocals ==
  [caller |-> "none", creator |-> "none", txArgs |-> "none",
   recipient |-> "none", state |-> "none", hash |-> "none", transactor |-> "none"]

Init ==
  /\ impl \in Impls
  /\ crashed = FALSE
  /\ currentContracts \in LoadableMaps
  /\ disk = currentContracts
  /\ lastSaveArg = currentContracts
  /\ lastSaveOk = TRUE
  /\ mu = Free
  /\ pc = [w \in Watchers |-> "start"]
  /\ stopState = "idle"
  /\ stopSubs = {}
  /\ stopPending = {}
  /\ errLogged = {}
  /\ newLog = NoNewLog
  /\ newTx = "none"
  /\ newExt = NilEntry
  /\ newIsSender = "none"
  /\ newParties = "none"
  /\ newVotes = 0
  /\ newSaveErr = "none"
  /\ cancelLog = 0
  /\ cancelFound = "none"
  /\ cancelCalls = {}
  /\ compLog = 0
  /\ compEntry = NilEntry
  /\ compFound = "none"
  /\ compLocal = NoLocals
  /\ compCalls = {}
  /\ compExists = "none"
  /\ compFailed = FALSE
  /\ compLate = FALSE
  /\ lastCreated = [a \in Addrs |-> Has(currentContracts, a)]
  /\ twin = [i \in Impls |-> [reg |-> EmptyMap, saves |-> <<>>, dead |-> FALSE]]
  /\ twinLogs = 0

(* ---------------------------- helpers ---------------------------------- *)
Goto(w, l) == pc' = [pc EXCEPT ![w] = l]
At(w, l) == ~crashed /\ pc[w] = l

\* a panic in any goroutine ends the process: nothing moves afterwards
Panic == crashed' = TRUE /\ UNCHANGED <<pc, mu>>

\* dataHandler.Save(service.currentContracts): the store keeps the snapshot
\* only when the call succeeds
Save(ok) ==
  /\ lastSaveArg' = currentContracts
  /\ lastSaveOk' = ok
  /\ disk' = IF ok THEN currentContracts ELSE disk

\* the goroutine's first statements: subscribeStopEvent, defer Unsubscribe
Start(w) ==
  /\ At(w, "start")
  /\ stopSubs' = stopSubs \cup {w}
  /\ Goto(w, "select")
  /\ UNCHANGED <<svcVars, twinVars, crashed, regVars, mu, stopState, stopPending, errLogged,
                 newVars, cancelVars, compVars, lastCreated>>

\* case <-stopChan: return (with the deferred stopSubscription.Unsubscribe)
RecvStop(w) ==
  /\ At(w, "select")
  /\ w \in stopPending
  /\ stopPending' = stopPending \ {w}
  /\ stopSubs' = stopSubs \ {w}
  /\ errLogged' = errLogged \ {w}
  /\ Goto(w, "exited")
  /\ UNCHANGED <<svcVars, twinVars, crashed, regVars, mu, stopState,
                 newVars, cancelVars, compVars, lastCreated>>

(* ---------------------------- Stop ------------------------------------- *)
\* Stop: service.stopFeed.Send(stopEvent{}) addresses the channels subscribed
\* when it starts and blocks until each has received or unsubscribed
StopSend ==
  /\ ~crashed
  /\ stopState = "idle"
  /\ stopState' = "sending"
  /\ stopPending' = stopSubs
  /\ UNCHANGED <<svcVars, twinVars, crashed, regVars, mu, pc, stopSubs, errLogged,
                 newVars, cancelVars, compVars, lastCreated>>

StopReturn ==
  /\ ~crashed
  /\ stopState = "sending"
  /\ stopPending = {}
  /\ stopState' = "returned"
  /\ UNCHANGED <<svcVars, twinVars, crashed, regVars, mu, pc, stopSubs, stopPending, errLogged,
                 newVars, cancelVars, compVars, lastCreated>>

(* ---------------------------- watchForNewContracts --------------------- *)
\* case err := <-subscription.Err(): log; break  (break leaves the select,
\* not the for loop)
NewAfterSubErr == "select"

NewSubErr ==
  /\ At("new", "select")
  /\ errLogged' = errLogged \cup {"new"}
  /\ Goto("new", NewAfterSubErr)
  /\ stopSubs' = IF NewAfterSubErr = "exited" THEN stopSubs \ {"new"} ELSE stopSubs
  /\ stopPending' = IF NewAfterSubErr = "exited" THEN stopPending \ {"new"} ELSE stopPending
  /\ UNCHANGED <<svcVars, twinVars, crashed, regVars, mu, stopState,
                 newVars, cancelVars, compVars, lastCreated>>

\* case foundLog := <-incomingLogs
NewRecv ==
  /\ At("new", "select")
  /\ \E l \in NewLogs : newLog' = l
  /\ errLogged' = errLogged \ {"new"}
  /\ Goto("new", "Lock")
  /\ UNCHANGED <<svcVars, twinVars, crashed, regVars, mu, stopVars,
                 newTx, newExt, newIsSender, newParties, newVotes, newSaveErr,
                 cancelVars, compVars, lastCreated>>

NewLock ==
  /\ At("new", "Lock")
  /\ CanLock(mu)
  /\ mu' = "new"
  /\ Goto("new", "TransactionByHash")
  /\ UNCHANGED <<svcVars, twinVars, crashed, regVars, stopVars, errLogged,
                 newVars, cancelVars, compVars, lastCreated>>

\* tx, _ := TransactionByHash(foundLog.TxHash); from, _ := Sender(tx).
\* A failed lookup leaves tx nil; Sender(nil) panics or returns an error.
NewTransactionByHash ==
  /\ At("new", "TransactionByHash")
  /\ \E o \in {"ok", "nil", "panic"} :
       IF o = "panic"
       THEN Panic /\ UNCHANGED newTx
       ELSE newTx' = o /\ Goto("new", "Unpack") /\ UNCHANGED <<crashed, mu>>
  /\ UNCHANGED <<svcVars, twinVars, regVars, stopVars, errLogged,
                 newLog, newExt, newIsSender, newParties, newVotes, newSaveErr,
                 cancelVars, compVars, lastCreated>>

\* the mutex after the decode error branch: log; service.mu.Unlock(); continue
MuAfterDecodeError_Held(m) == m
MuAfterDecodeError(m) == Free

\* UnpackNewExtensionCreatedLog(foundLog.Data); on error Unlock and continue
NewUnpack ==
  /\ At("new", "Unpack")
  /\ IF newLog.Decodes
     THEN /\ Goto("new", "Insert")
          /\ lastCreated' = [lastCreated EXCEPT ![newLog.Address] = TRUE]
          /\ UNCHANGED mu
     ELSE /\ mu' = MuAfterDecodeError(mu)
          /\ Goto("new", "loop")
          /\ UNCHANGED lastCreated
  /\ UNCHANGED <<svcVars, twinVars, crashed, regVars, stopVars, errLogged,
                 newVars, cancelVars, compVars>>

\* newContractExtension := ExtensionContract{..., CreationData: tx.Data()};
\* service.currentContracts[foundLog.Address] = &newContractExtension.
\* tx.Data() reads the payload through tx: on a nil tx it panics.
NewInsert ==
  /\ At("new", "Insert")
  /\ IF newTx = "nil"
     THEN Panic /\ UNCHANGED <<newExt, currentContracts>>
     ELSE /\ newExt' = NewExtensionContract(newLog.Address)
          /\ currentContracts' = InsertRecord(currentContracts, newLog.Address, newExt')
          /\ Goto("new", "Save")
          /\ UNCHANGED <<crashed, mu>>
  /\ UNCHANGED <<svcVars, twinVars, disk, lastSaveArg, lastSaveOk, stopVars, errLogged,
                 newLog, newTx, newIsSender, newParties, newVotes, newSaveErr,
                 cancelVars, compVars, lastCreated>>

\* what the creation handler leaves in the registry when its Save failed
AfterFailedInsert_Rollback(reg, a) == DeleteRecord(reg, a)
AfterFailedInsert(reg, a) == reg

\* if err != nil {log; Unlock; continue}: where the handler goes after Save
AfterNewSave_Continue(ok) == "IsSender"
AfterNewSave(ok) == IF ok THEN "IsSender" ELSE "loop"

\* the mutex after Save: service.mu.Unlock() on the error branch and, on
\* success, before the self-approval block
MuAfterSave_Held(m) == m
MuAfterSave(m) == Free

\* err = Save(currentContracts); both branches Unlock; on error continue
NewSave ==
  /\ At("new", "Save")
  /\ \E ok \in BOOLEAN :
       /\ Save(ok)
       /\ currentContracts' =
            IF ok THEN currentContracts
            ELSE AfterFailedInsert(currentContracts, newLog.Address)
       /\ newSaveErr' = IF ok THEN "ok" ELSE "failed"
       /\ Goto("new", AfterNewSave(ok))
  /\ mu' = MuAfterSave(mu)
  /\ UNCHANGED <<svcVars, twinVars, crashed, stopVars, errLogged,
                 newLog, newTx, newExt, newIsSender, newParties, newVotes,
                 cancelVars, compVars, lastCreated>>

\* isSender, _ := service.ptm.IsSender(data); if isSender {...}
SelfVotes_Always(isSender) == TRUE
SelfVotes(isSender) == isSender

NewIsSender ==
  /\ At("new", "IsSender")
  /\ \E b \in BOOLEAN :
       /\ newIsSender' = IF b THEN "true" ELSE "false"
       /\ Goto("new", IF SelfVotes(b) THEN "GetParticipants" ELSE "loop")
  /\ UNCHANGED <<svcVars, twinVars, crashed, regVars, mu, stopVars, errLogged,
                 newLog, newTx, newExt, newParties, newVotes, newSaveErr,
                 cancelVars, compVars, lastCreated>>

\* fetchedParties, err := GetParticipants(data); on error continue
NewGetParticipants ==
  /\ At("new", "GetParticipants")
  /\ \E ok \in BOOLEAN :
       /\ newParties' = IF ok THEN "ok" ELSE "failed"
       /\ Goto("new", IF ok THEN "Creator" ELSE "loop")
  /\ UNCHANGED <<svcVars, twinVars, crashed, regVars, mu, stopVars, errLogged,
                 newLog, newTx, newExt, newIsSender, newVotes, newSaveErr,
                 cancelVars, compVars, lastCreated>>

\* caller, _ := managementContractFacade.Caller(address);
\* contractCreator, _ := caller.Creator(nil).  A failed Caller leaves caller
\* nil, and Creator on it panics or returns an error.
NewCreator ==
  /\ At("new", "Creator")
  /\ \E o \in {"ok", "nil"} :
       \E c \in (IF o = "nil" THEN {"panic", "zero"} ELSE {"ok", "zero"}) :
         IF c = "panic"
         THEN Panic
         ELSE Goto("new", "Vote") /\ UNCHANGED <<crashed, mu>>
  /\ UNCHANGED <<svcVars, twinVars, regVars, stopVars, errLogged,
                 newVars, cancelVars, compVars, lastCreated>>

\* extensionAPI.ApproveContractExtension / VoteOnContract(address, true, txArgs)
NewVote ==
  /\ At("new", "Vote")
  /\ newVotes' = newVotes + 1
  /\ Goto("new", "loop")
  /\ UNCHANGED <<svcVars, twinVars, crashed, regVars, mu, stopVars, errLogged,
                 newLog, newTx, newExt, newIsSender, newParties, newSaveErr,
                 cancelVars, compVars, lastCreated>>

\* the end of one iteration of the for loop: the locals go out of scope
NewLoop ==
  /\ At("new", "loop")
  /\ newLog' = NoNewLog
  /\ newTx' = "none"
  /\ newExt' = NilEntry
  /\ newIsSender' = "none"
  /\ newParties' = "none"
  /\ newVotes' = 0
  /\ newSaveErr' = "none"
  /\ Goto("new", "select")
  /\ UNCHANGED <<svcVars, twinVars, crashed, regVars, mu, stopVars, errLogged,
                 cancelVars, compVars, lastCreated>>

(* ---------------------------- watchForCancelledContracts --------------- *)
\* case err := <-subscription.Err(): log; return
CancelSubErr ==
  /\ At("cancel", "select")
  /\ errLogged' = errLogged \cup {"cancel"}
  /\ stopSubs' = stopSubs \ {"cancel"}
  /\ stopPending' = stopPending \ {"cancel"}
  /\ Goto("cancel", "exited")
  /\ UNCHANGED <<svcVars, twinVars, crashed, regVars, mu, stopState,
                 newVars, cancelVars, compVars, lastCreated>>

\* case l := <-incomingLogs
CancelRecv ==
  /\ At("cancel", "select")
  /\ \E a \in Addrs : cancelLog' = a
  /\ Goto("cancel", "Lock")
  /\ UNCHANGED <<svcVars, twinVars, crashed, regVars, mu, stopVars, errLogged,
                 newVars, cancelFound, cancelCalls, compVars, lastCreated>>

CancelLock ==
  /\ At("cancel", "Lock")
  /\ CanLock(mu)
  /\ mu' = "cancel"
  /\ Goto("cancel", "Lookup")
  /\ UNCHANGED <<svcVars, twinVars, crashed, regVars, stopVars, errLogged,
                 newVars, cancelVars, compVars, lastCreated>>

\* if _, ok := service.currentContracts[l.Address]; ok {delete; Save}
CancelRemoves_Always(ok) == TRUE
CancelRemoves(ok) == ok

CancelLookup ==
  /\ At("cancel", "Lookup")
  /\ LET ok == Has(currentContracts, cancelLog) IN
       /\ cancelFound' = IF ok THEN "true" ELSE "false"
       /\ IF CancelRemoves(ok)
          THEN /\ Goto("cancel", "Delete")
               /\ lastCreated' = [lastCreated EXCEPT ![cancelLog] = FALSE]
          ELSE /\ Goto("cancel", "Unlock")
               /\ UNCHANGED lastCreated
  /\ UNCHANGED <<svcVars, twinVars, crashed, regVars, mu, stopVars, errLogged,
                 newVars, cancelLog, cancelCalls, compVars>>

\* delete(service.currentContracts, l.Address)
CancelDelete ==
  /\ At("cancel", "Delete")
  /\ currentContracts' = DeleteRecord(currentContracts, cancelLog)
  /\ cancelCalls' = cancelCalls \cup {"delete"}
  /\ Goto("cancel", "Save")
  /\ UNCHANGED <<svcVars, twinVars, crashed, disk, lastSaveArg, lastSaveOk, mu, stopVars,
                 errLogged, newVars, cancelLog, cancelFound, compVars, lastCreated>>

\* what the cancellation handler leaves in the registry when its Save
\* failed: the error is logged (backend.go) or dropped (part_000)
AfterFailedDelete_Rollback(reg, a, rec) == InsertRecord(reg, a, rec)
AfterFailedDelete(reg, a, rec) == reg

\* Save(currentContracts) after the delete
CancelSave ==
  /\ At("cancel", "Save")
  /\ \E ok \in BOOLEAN :
       /\ Save(ok)
       /\ currentContracts' =
            IF ok THEN currentContracts
            ELSE AfterFailedDelete(currentContracts, cancelLog,
                                   NewExtensionContract(cancelLog))
  /\ cancelCalls' = cancelCalls \cup {"Save"}
  /\ Goto("cancel", "Unlock")
  /\ UNCHANGED <<svcVars, twinVars, crashed, mu, stopVars, errLogged,
                 newVars, cancelLog, cancelFound, compVars, lastCreated>>

\* service.mu.Unlock() at the end of the case, on both branches of the if
CancelUnlock ==
  /\ At("cancel", "Unlock")
  /\ mu' = Free
  /\ cancelLog' = 0
  /\ cancelFound' = "none"
  /\ cancelCalls' = {}
  /\ Goto("cancel", "select")
  /\ UNCHANGED <<svcVars, twinVars, crashed, regVars, stopVars, errLogged,
                 newVars, compVars, lastCreated>>

(* ---------------------------- watchForCompletionEvents ----------------- *)
\* The subscription returned by SubscribeToLogs is discarded
\* (incomingLogs, _, err := ...): this select has no case for its error.

\* case l := <-incomingLogs
CompRecv ==
  /\ At("comp", "select")
  /\ \E a \in Addrs : compLog' = a
  /\ Goto("comp", "Lock")
  /\ UNCHANGED <<svcVars, twinVars, crashed, regVars, mu, stopVars, errLogged,
                 newVars, cancelVars, compEntry, compFound, compLocal, compCalls,
                 compExists, compFailed, compLate, lastCreated>>

CompLock ==
  /\ At("comp", "Lock")
  /\ CanLock(mu)
  /\ mu' = "comp"
  /\ Goto("comp", "Lookup")
  /\ UNCHANGED <<svcVars, twinVars, crashed, regVars, stopVars, errLogged,
                 newVars, cancelVars, compVars, lastCreated>>

\* extensionEntry, ok := service.currentContracts[l.Address];
\* if !ok {return}  (part_000: Unlock; continue)
IgnoresEvent_Never(ok) == FALSE
IgnoresEvent(ok) == ~ok

\* the mutex across the state share: backend.go unlocks in a defer of the
\* closure that handles the event, part_000 before each continue and at the
\* end of the case
MuAfterLookup_Released(m) == Free
MuAfterLookup(m) == m

CompLookup ==
  /\ At("comp", "Lookup")
  /\ LET ok == Has(currentContracts, compLog) IN
       /\ compFound' = IF ok THEN "true" ELSE "false"
       /\ compEntry' = IF ok THEN currentContracts[compLog] ELSE NilEntry
       /\ IF IgnoresEvent(ok)
          THEN Goto("comp", "Unlock") /\ UNCHANGED mu
          ELSE Goto("comp", "Caller") /\ mu' = MuAfterLookup(mu)
  /\ UNCHANGED <<svcVars, twinVars, crashed, regVars, stopVars, errLogged,
                 newVars, cancelVars, compLog, compLocal, compCalls,
                 compExists, compFailed, compLate, lastCreated>>

\* Steps whose error the handler checks and returns on.  backend.go checks
\* every one; part_000 checks Exists and GetParticipants and drops the rest.
\* The result of SetSharedStateHash ends the event either way.
Checked_Backend(s) == TRUE
Checked_Part000_NoExists(s) == s = "GetParticipants"
Checked_Part000(s) == s \in {"Exists", "GetParticipants"}
Checked(i, s) == IF i = "backend" THEN Checked_Backend(s) ELSE Checked_Part000(s)

\* the step after s in the handler, "Unlock" after the last
NextStep(s) ==
  IF StepIndex(s) = Len(CompSteps) THEN "Unlock" ELSE CompSteps[StepIndex(s) + 1]

\* steps that are method calls on the result of an earlier step
ReceiverNil(loc, s) ==
  \/ s \in {"Creator", "TargetRecipientPublicKeyHash", "ContractToExtend"}
       /\ loc.caller = "nil"
  \/ s = "SetSharedStateHash" /\ loc.transactor = "nil"

\* the handler's locals after step s returned ok or failed; a result no
\* later step reads is dropped
Good(ok) == IF ok THEN "ok" ELSE "bad"
LocalsAfter(loc, s, ok) ==
  CASE s = "Caller" -> [loc EXCEPT !.caller = IF ok THEN "ok" ELSE "nil"]
    [] s = "Creator" -> [loc EXCEPT !.creator = Good(ok)]
    [] s = "GenerateTransactOptions" ->
         [loc EXCEPT !.creator = "none", !.txArgs = Good(ok /\ loc.creator = "ok")]
    [] s = "TargetRecipientPublicKeyHash" -> [loc EXCEPT !.recipient = Good(ok)]
    [] s = "DecodeString" ->
         [loc EXCEPT !.recipient = Good(ok /\ loc.recipient = "ok")]
    [] s = "Receive" ->
         [loc EXCEPT !.recipient = Good(ok /\ loc.recipient = "ok")]
    [] s = "ContractToExtend" -> [loc EXCEPT !.caller = "none", !.state = Good(ok)]
    [] s = "GetAddressStateFromBlock" ->
         [loc EXCEPT !.state = Good(ok /\ loc.state = "ok")]
    [] s = "Send" ->
         [loc EXCEPT !.recipient = "none", !.state = "none",
                     !.hash = Good(ok /\ loc.state = "ok" /\ loc.recipient = "ok")]
    [] s = "Transactor" -> [loc EXCEPT !.transactor = IF ok THEN "ok" ELSE "nil"]
    [] OTHER -> loc

\* what a successful SetSharedStateHash leaves in the registry: the handler
\* has no statement that removes or changes the record
AfterStateShare_Removed(reg, a) == DeleteRecord(reg, a)
AfterStateShare(reg, a) == reg

\* one step of the state share: the call, then the handler's check of its result
CompStep ==
  /\ ~crashed
  /\ pc["comp"] \in CompStepSet
  /\ LET s == pc["comp"] IN
     \E o \in (IF ReceiverNil(compLocal, s) THEN {"panic", "fail"} ELSE {"ok", "fail"}) :
       IF o = "panic"
       THEN Panic /\ UNCHANGED <<currentContracts, compLocal, compCalls, compExists,
                                  compFailed, compLate>>
       ELSE /\ compCalls' = compCalls \cup {s}
            /\ compLate' = (compLate \/ (compFailed /\ s \in ExternalSteps
                                                      /\ ~ReceiverNil(compLocal, s)))
            /\ compFailed' = (compFailed \/ o = "fail")
            /\ compExists' = IF s = "Exists" THEN (IF o = "ok" THEN "true" ELSE "false")
                              ELSE compExists
            /\ compLocal' = LocalsAfter(compLocal, s, o = "ok")
            /\ currentContracts' =
                 IF s = "SetSharedStateHash" /\ o = "ok"
                 THEN AfterStateShare(currentContracts, compLog)
                 ELSE currentContracts
            /\ Goto("comp", IF o = "fail" /\ Checked(impl, s) THEN "Unlock" ELSE NextStep(s))
            /\ UNCHANGED <<crashed, mu>>
  /\ UNCHANGED <<svcVars, twinVars, disk, lastSaveArg, lastSaveOk, stopVars, errLogged,
                 newVars, cancelVars, compLog, compEntry, compFound, lastCreated>>

\* service.mu.Unlock(): deferred in backend.go, before each continue and at
\* the end of the case in part_000; the locals go out of scope
CompUnlock ==
  /\ At("comp", "Unlock")
  /\ mu' = Free
  /\ compLog' = 0
  /\ compEntry' = NilEntry
  /\ compFound' = "none"
  /\ compLocal' = NoLocals
  /\ compCalls' = {}
  /\ compExists' = "none"
  /\ compFailed' = FALSE
  /\ compLate' = FALSE
  /\ Goto("comp", "select")
  /\ UNCHANGED <<svcVars, twinVars, crashed, regVars, stopVars, errLogged,
                 newVars, cancelVars, lastCreated>>

(* ---------------------------- specification ---------------------------- *)
Next ==
  \/ \E w \in Watchers : Start(w)
  \/ \E w \in Watchers : RecvStop(w)
  \/ StopSend
  \/ StopReturn
  \/ NewSubErr
  \/ NewRecv
  \/ NewLock
  \/ NewTransactionByHash
  \/ NewUnpack
  \/ NewInsert
  \/ NewSave
  \/ NewIsSender
  \/ NewGetParticipants
  \/ NewCreator
  \/ NewVote
  \/ NewLoop
  \/ CancelSubErr
  \/ CancelRecv
  \/ CancelLock
  \/ CancelLookup
  \/ CancelDelete
  \/ CancelSave
  \/ CancelUnlock
  \/ CompRecv
  \/ CompLock
  \/ CompLookup
  \/ CompStep
  \/ CompUnlock

Spec == Init /\ [][Next]_vars

(* ---------------------------- the two variants side by side ------------ *)
\* The registry changes and Save is called only between Lock and Unlock, so
\* each variant handles its logs one after the other; here both variants
\* get the same log with the same outcomes of its calls, and each handles
\* it from Lock to the end of the event in one step.  A variant that a
\* panic has ended handles nothing more.  Both start from the empty registry
\* of a first run.

\* watchForNewContracts on a creation log of address a: tx is the outcome of
\* TransactionByHash and Sender ("ok", "nil", "panic"), saveOk that of Save,
\* votePanics says that the self approval ran into caller.Creator on the nil
\* caller of a failed Caller and panicked
TwinCreation(st, a, decodes, tx, saveOk, votePanics) ==
  IF st.dead THEN st
  ELSE IF tx = "panic" THEN [st EXCEPT !.dead = TRUE]
  ELSE IF ~decodes THEN st
  ELSE IF tx = "nil" THEN [st EXCEPT !.dead = TRUE]
  ELSE LET inserted == InsertRecord(st.reg, a, NewExtensionContract(a)) IN
       [reg |-> IF saveOk THEN inserted ELSE AfterFailedInsert(inserted, a),
        saves |-> Append(st.saves, inserted),
        dead |-> saveOk /\ votePanics]

\* watchForCancelledContracts on a cancellation log of address a
TwinCancellation(st, a, saveOk) ==
  IF st.dead \/ ~CancelRemoves(Has(st.reg, a)) THEN st
  ELSE LET removed == DeleteRecord(st.reg, a) IN
       [reg |-> IF saveOk THEN removed
                ELSE AfterFailedDelete(removed, a, NewExtensionContract(a)),
        saves |-> Append(st.saves, removed),
        dead |-> FALSE]

\* how the state share of variant i goes on from step s with the locals loc,
\* when f is the step whose call fails ("none": no call fails) and nilPanics
\* says whether a method call on a nil receiver panics (or returns an
\* error): TRUE when the handler panics, FALSE when it comes to its end
RECURSIVE SharePanics(_, _, _, _, _)
SharePanics(i, s, loc, f, nilPanics) ==
  IF ReceiverNil(loc, s) /\ nilPanics THEN TRUE
  ELSE LET ok == ~ReceiverNil(loc, s) /\ s # f IN
       IF ~ok /\ Checked(i, s) THEN FALSE
       ELSE IF NextStep(s) = "Unlock" THEN FALSE
       ELSE SharePanics(i, NextStep(s), LocalsAfter(loc, s, ok), f, nilPanics)

\* watchForCompletionEvents of variant i on a completion log of address a
TwinCompletion(i, st, a, f, nilPanics) ==
  IF st.dead \/ IgnoresEvent(Has(st.reg, a)) THEN st
  ELSE [reg |-> AfterStateShare(st.reg, a),
        saves |-> st.saves,
        dead |-> SharePanics(i, CompSteps[1], NoLocals, f, nilPanics)]

TwinNewLog ==
  /\ twinLogs < MaxLogs
  /\ twinLogs' = twinLogs + 1
  /\ \E a \in Addrs, decodes \in BOOLEAN, tx \in {"ok", "nil", "panic"},
        saveOk \in BOOLEAN, votePanics \in BOOLEAN :
       twin' = [i \in Impls |->
                  TwinCreation(twin[i], a, decodes, tx, saveOk, votePanics)]
  /\ UNCHANGED <<svcVars, crashed, regVars, mu, pc, stopVars, errLogged,
                 newVars, cancelVars, compVars, lastCreated>>

TwinCancelLog ==
  /\ twinLogs < MaxLogs
  /\ twinLogs' = twinLogs + 1
  /\ \E a \in Addrs, saveOk \in BOOLEAN :
       twin' = [i \in Impls |-> TwinCancellation(twin[i], a, saveOk)]
  /\ UNCHANGED <<svcVars, crashed, regVars, mu, pc, stopVars, errLogged,
                 newVars, cancelVars, compVars, lastCreated>>

TwinCompLog ==
  /\ twinLogs < MaxLogs
  /\ twinLogs' = twinLogs + 1
  /\ \E a \in Addrs, f \in CompStepSet \cup {"none"}, nilPanics \in BOOLEAN :
       twin' = [i \in Impls |-> TwinCompletion(i, twin[i], a, f, nilPanics)]
  /\ UNCHANGED <<svcVars, crashed, regVars, mu, pc, stopVars, errLogged,
                 newVars, cancelVars, compVars, lastCreated>>

TwinNext ==
  \/ TwinNewLog
  \/ TwinCancelLog
  \/ TwinCompLog

TwinSpec == Init /\ [][TwinNext]_vars

\* Scheduling: an external call returns and the statements after it run, so
\* a handler that is past its Lock keeps taking its steps (weak fairness of
\* each watcher's handler body); a goroutine blocked in service.mu.Lock() is
\* handed the mutex after a bounded number of releases (sync.Mutex leaves no
\* waiter starving), which is strong fairness of the Lock steps.
NewBody ==
  \/ NewTransactionByHash
  \/ NewUnpack
  \/ NewInsert
  \/ NewSave
  \/ NewIsSender
  \/ NewGetParticipants
  \/ NewCreator
  \/ NewVote
  \/ NewLoop

CancelBody ==
  \/ CancelLookup
  \/ CancelDelete
  \/ CancelSave
  \/ CancelUnlock

CompBody ==
  \/ CompLookup
  \/ CompStep
  \/ CompUnlock

FairSpec ==
  /\ Spec
  /\ WF_vars(NewBody)
  /\ WF_vars(CancelBody)
  /\ WF_vars(CompBody)
  /\ SF_vars(NewLock)
  /\ SF_vars(CancelLock)
  /\ SF_vars(CompLock)

(* ---------------------------- positions -------------------------------- *)
\* positions at which a watcher is between its Lock and its Unlock
NewLocked == {"TransactionByHash", "Unpack", "Insert", "Save"}
CancelLocked == {"Lookup", "Delete", "Save", "Unlock"}
CompLocked == {"Lookup", "Unlock"} \cup CompStepSet
Locked(w) ==
  IF w = "new" THEN NewLocked ELSE IF w = "cancel" THEN CancelLocked ELSE CompLocked

\* positions of the creation handler in its self-approval block
NewSelfVote == {"IsSender", "GetParticipants", "Creator", "Vote"}

\* positions of the completion handler after its registry lookup
CompAfterLookup == {"Unlock"} \cup CompStepSet

(* ---------------------------- claims ----------------------------------- *)

\* C1: for every address a, the registry holds a record for a exactly when
\* the last event that had an effect on a was a creation (a creation log has
\* an effect when its payload decodes, a cancellation when the address is
\* present; a record returned by Load stands for the creation an earlier run
\* saved).  A handler that has decided on its event and not yet changed the
\* map (new at Insert, cancel at Delete) is in the middle of processing it.
MidEvent(a) ==
  \/ pc["new"] = "Insert" /\ newLog.Address = a
  \/ pc["cancel"] = "Delete" /\ cancelLog = a

C1_RegistryFollowsLastEffect ==
  \A a \in Addrs : ~MidEvent(a) => (Has(currentContracts, a) <=> lastCreated[a])

\* a creation has been inserted while a cancellation of the same address
\* waits for the lock
C1_Witness ==
  /\ pc["new"] = "Save"
  /\ Has(currentContracts, newLog.Address)
  /\ pc["cancel"] = "Lock"
  /\ cancelLog = newLog.Address

\* C2: in the completion handler a failed step ends the event: no external
\* step is called after a step of the same event has failed.
C2_FailureAbortsEvent == ~compLate

\* C3: a completion event whose address has no record makes no call: the
\* handler goes from the lookup straight to Unlock.
C3_AbsentMakesNoCall ==
  compFound # "true" => (compCalls = {} /\ pc["comp"] \notin CompStepSet)

\* the completion handler found no record for an address whose record a
\* cancellation removed (its Save failed, so the store still has the record)
C3_Witness ==
  /\ pc["comp"] = "Unlock"
  /\ compFound = "false"
  /\ Has(disk, compLog)
  /\ ~Has(currentContracts, compLog)

\* C4: when accountManager.Exists(creator) is false the handler makes none
\* of the later calls of the event (GetParticipants ... SetSharedStateHash).
C4_NoCredentialsNoTransfer ==
  compExists = "false" =>
    (compCalls \subseteq {"Caller", "Creator", "Exists"} /\ pc["comp"] = "Unlock")

C4_Witness ==
  /\ compExists = "false"
  /\ pc["comp"] = "Unlock"
  /\ "Exists" \in compCalls

\* C5 as stated: for a creation log that was handled to the end, one approval
\* vote was submitted if IsSender returned true, none if it returned false.
C5_VoteIffIsSender ==
  pc["new"] = "loop" =>
    /\ newIsSender = "true" => newVotes = 1
    /\ newIsSender = "false" => newVotes = 0

\* C5 amended: at most one vote per creation log; none unless IsSender
\* returned true and GetParticipants succeeded; and when the handler has
\* finished the event, exactly one in that case.
C5_VoteIffIsSenderAndParticipants ==
  /\ newVotes \in {0, 1}
  /\ newVotes = 1 => (newIsSender = "true" /\ newParties = "ok")
  /\ pc["new"] = "loop" =>
       ((newIsSender = "true" /\ newParties = "ok") => newVotes = 1)

C5_Witness ==
  /\ pc["new"] = "loop"
  /\ newIsSender = "true"
  /\ newParties = "ok"
  /\ newVotes = 1

\* C6 as stated: whenever the lock is free the last snapshot passed to Save
\* is the registry, and what Load would return after a crash (the snapshot
\* of the last Save that succeeded) has every record of the registry.
C6_CrashLosesNothing ==
  mu = Free =>
    /\ lastSaveArg = currentContracts
    /\ \A a \in DOMAIN currentContracts :
         Has(disk, a) /\ disk[a] = currentContracts[a]

\* C6 amended: whenever the lock is free the last snapshot passed to Save is
\* the registry; the store equals the registry when that Save succeeded.
\* (Before the first Save, lastSaveArg is what Load returned.)
C6_SavedAfterEveryMutation ==
  mu = Free =>
    /\ lastSaveArg = currentContracts
    /\ lastSaveOk => disk = currentContracts

\* the creation handler has inserted, saved and released the lock
C6_Witness ==
  /\ pc["new"] = "IsSender"
  /\ mu = Free
  /\ Has(disk, newLog.Address)
  /\ lastSaveOk

\* C7: once Stop has returned, the stop signal has reached every watcher:
\* each of the three has left its loop.
C7_StopReachesEveryWatcher ==
  stopState = "returned" => \A w \in Watchers : pc[w] = "exited"

\* C8: a watcher that received an error of its log subscription has left its
\* loop.
C8_SubscriptionErrorEndsWatcher ==
  \A w \in errLogged : pc[w] = "exited"

\* C9: a watcher between its Lock and its Unlock, where every lookup, insert,
\* delete and Save of the registry is, holds the mutex; so at most one
\* watcher is there.
C9_RegistryOnlyUnderLock ==
  /\ \A w \in Watchers : pc[w] \in Locked(w) => mu = w
  /\ Cardinality({w \in Watchers : pc[w] \in Locked(w)}) <= 1

\* the creation handler is between its insert and its Save while the other
\* two watchers wait for the lock
C9_Witness ==
  /\ pc["new"] = "Save"
  /\ pc["cancel"] = "Lock"
  /\ pc["comp"] = "Lock"

\* C10: from its lookup to its Unlock the completion handler holds the
\* mutex, the creation and cancellation handlers are outside their locked
\* sections, and the record it found is still in the registry, unchanged.
C10_LockHeldThroughStateShare ==
  pc["comp"] \in CompAfterLookup =>
    /\ mu = "comp"
    /\ pc["new"] \notin NewLocked
    /\ pc["cancel"] \notin CancelLocked
    /\ compFound = "true" =>
         (Has(currentContracts, compLog) /\ currentContracts[compLog] = compEntry)

\* the state share is about to send while both other watchers have a log in
\* hand and wait for the lock
C10_Witness ==
  /\ pc["comp"] = "Send"
  /\ pc["new"] = "Lock"
  /\ pc["cancel"] = "Lock"
  /\ cancelLog = compLog

\* C11: no failed call of a handler ends a watcher: the process never dies of
\* a panic (a panic in one goroutine ends all three watchers).
C11_FailedCallKeepsWatcherRunning == ~crashed

\* C12: a cancellation log whose address has no record is a no-op: the
\* handler goes from the lookup straight to its Unlock having made neither
\* the delete nor the Save, the registry still is the snapshot of the last
\* Save and has no record for the address, and the watcher can go on to its
\* select.
C12_AbsentCancellationIsNoOp ==
  cancelFound = "false" =>
    /\ pc["cancel"] = "Unlock"
    /\ cancelCalls = {}
    /\ mu = "cancel"
    /\ ~Has(currentContracts, cancelLog)
    /\ lastSaveArg = currentContracts
    /\ (crashed \/ ENABLED CancelUnlock)

\* the cancellation of an address was handled before the creation log of
\* that address, which waits for the lock
C12_Witness ==
  /\ pc["cancel"] = "Unlock"
  /\ cancelFound = "false"
  /\ cancelCalls = {}
  /\ pc["new"] = "Lock"
  /\ newLog.Address = cancelLog

\* C13: while the completion handler is between its lookup and the end of
\* its Unlock, whatever the outcome of the event, no step changes the
\* registry and no step calls Save (the store, the snapshot and the result
\* of the last Save stay as they are).
C13_CompletionLeavesRegistry ==
  [][pc["comp"] \in CompLocked =>
       /\ currentContracts' = currentContracts
       /\ disk' = disk
       /\ lastSaveArg' = lastSaveArg
       /\ lastSaveOk' = lastSaveOk]_vars

\* the state share went through to a successful SetSharedStateHash and the
\* record is still in the registry
C13_Witness ==
  /\ pc["comp"] = "Unlock"
  /\ "SetSharedStateHash" \in compCalls
  /\ ~compFailed
  /\ Has(currentContracts, compLog)
  /\ currentContracts[compLog] = compEntry

\* C14: a creation log for an address whose record an earlier processing of
\* the same log inserted (every creation log of an address has the same
\* transaction and payload) is handled without error and changes nothing:
\* after the second insert the registry is the snapshot the last Save was
\* given, with the same record under that address, and that registry is
\* what the coming Save passes.
C14_ReplayedCreationIsIdempotent ==
  (pc["new"] = "Save" /\ Has(lastSaveArg, newLog.Address)) =>
    /\ currentContracts = lastSaveArg
    /\ currentContracts[newLog.Address] = newExt
    /\ (crashed \/ ENABLED NewSave)

\* the second insert of a record that the first processing inserted and saved
C14_Witness ==
  /\ pc["new"] = "Save"
  /\ Has(lastSaveArg, newLog.Address)
  /\ Has(disk, newLog.Address)
  /\ currentContracts = lastSaveArg
  /\ mu = "new"

\* C15 as stated: when the Save after a cancellation's delete has failed, the
\* record is in the registry again at the end of the handler.
C15_FailedCancelSaveRollsBack ==
  (pc["cancel"] = "Unlock" /\ "Save" \in cancelCalls /\ ~lastSaveOk) =>
    Has(currentContracts, cancelLog)

\* C15 amended: a failed Save rolls nothing back in either handler.  At the
\* end of a cancellation that removed a record the registry has no record
\* for the address whether the Save succeeded or not, and is the snapshot
\* that Save was given; after a creation whose Save failed the inserted
\* record is in the registry until a cancellation removes it.
C15_FailedSaveKeepsMutation ==
  /\ (pc["cancel"] = "Unlock" /\ "Save" \in cancelCalls) =>
       /\ ~Has(currentContracts, cancelLog)
       /\ lastSaveArg = currentContracts
  /\ (newSaveErr = "failed" /\ lastCreated[newLog.Address]) =>
       Has(currentContracts, newLog.Address)

\* a cancellation removed a record and its Save failed: the store still has
\* the record, the registry does not
C15_Witness ==
  /\ pc["cancel"] = "Unlock"
  /\ "Save" \in cancelCalls
  /\ ~lastSaveOk
  /\ Has(disk, cancelLog)
  /\ ~Has(currentContracts, cancelLog)

\* C16: a creation whose Save failed ends there: the handler has released
\* the lock and is at the end of the loop body having made no IsSender
\* query, no GetParticipants call and no vote; the record it inserted is in
\* the registry (until a cancellation removes it); and the watcher can go on
\* to its select.
C16_FailedCreationSaveAbortsEvent ==
  newSaveErr = "failed" =>
    /\ pc["new"] = "loop"
    /\ mu # "new"
    /\ newIsSender = "none"
    /\ newParties = "none"
    /\ newVotes = 0
    /\ lastCreated[newLog.Address] =>
         /\ Has(currentContracts, newLog.Address)
         /\ currentContracts[newLog.Address] = newExt
    /\ (crashed \/ ENABLED NewLoop)

\* the Save after an insert failed: the registry has the record, the store
\* does not
C16_Witness ==
  /\ newSaveErr = "failed"
  /\ pc["new"] = "loop"
  /\ Has(currentContracts, newLog.Address)
  /\ ~Has(disk, newLog.Address)
  /\ mu = Free

\* C17: every record of the registry is stored under the key equal to its
\* own ManagementContractAddress; and right after the insert for a decoded
\* creation log the registry has one record with that management address,
\* under the log's address, whose Initiator is the sender of the log's
\* transaction, whose Address is the decoded contract to extend and whose
\* CreationData is the transaction's data.
C17_RecordBuiltFromLog ==
  /\ \A a \in DOMAIN currentContracts :
       a \in Addrs /\ currentContracts[a].ManagementContractAddress = a
  /\ pc["new"] = "Save" =>
       /\ Has(currentContracts, newLog.Address)
       /\ currentContracts[newLog.Address].ManagementContractAddress = newLog.Address
       /\ currentContracts[newLog.Address].Initiator = TxSender(newLog.Address)
       /\ currentContracts[newLog.Address].Address = ToExtend(newLog.Address)
       /\ currentContracts[newLog.Address].CreationData = TxData(newLog.Address)
       /\ Cardinality({x \in DOMAIN currentContracts :
            currentContracts[x].ManagementContractAddress = newLog.Address}) = 1

\* the first record of an address has just been inserted
C17_Witness ==
  /\ pc["new"] = "Save"
  /\ ~Has(lastSaveArg, newLog.Address)
  /\ Has(currentContracts, newLog.Address)
  /\ currentContracts[newLog.Address].Initiator = TxSender(newLog.Address)

\* C18: the transfer steps of a completion event are called with the values
\* fetched for that event: ptm.Send with a state that was fetched for the
\* contract to extend and a recipient that ptm.Receive resolved, and
\* SetSharedStateHash (on an existing transactor) with the hash that Send
\* returned and transaction options generated for the creator.
C18_TransferUsesFetchedValues ==
  /\ pc["comp"] = "Send" =>
       (compLocal.state = "ok" /\ compLocal.recipient = "ok")
  /\ (pc["comp"] = "SetSharedStateHash" /\ compLocal.transactor = "ok") =>
       (compLocal.hash = "ok" /\ compLocal.txArgs = "ok")

\* C19: a watcher holds service.mu only inside the locked section of its
\* handler, so never in its select, after it exited, while it waits for the
\* lock or during the self-approval calls: every path out of the section
\* has released the mutex.  And, when calls return, no watcher waits for the
\* lock forever: it gets it, unless a panic has ended the process.
C19_LockReleasedOnEveryPath ==
  /\ [](\A w \in Watchers : mu = w => pc[w] \in Locked(w))
  /\ \A w \in Watchers : []<>(pc[w] # "Lock" \/ crashed)

\* the creation handler left its locked section by the decode-error branch
\* while both other watchers wait for the lock, which is free
C19_Witness ==
  /\ pc["new"] = "loop"
  /\ newLog.Address \in Addrs
  /\ ~newLog.Decodes
  /\ mu = Free
  /\ pc["cancel"] = "Lock"
  /\ pc["comp"] = "Lock"

\* C20: after a successful Save the creation handler is in its self-approval
\* block (or at the end of the loop body) without the mutex: a watcher that
\* waits for the lock then is kept waiting only by the other of the two, not
\* by the self-vote; and the record the handler inserted stays in the
\* registry as it was, whatever the self-approval calls return, until a
\* cancellation removes it.
C20_SelfVoteOutsideLock ==
  newSaveErr = "ok" =>
    /\ pc["new"] \in NewSelfVote \cup {"loop"}
    /\ mu # "new"
    /\ pc["cancel"] = "Lock" => (crashed \/ mu = "comp" \/ ENABLED CancelLock)
    /\ pc["comp"] = "Lock" => (crashed \/ mu = "cancel" \/ ENABLED CompLock)
    /\ lastCreated[newLog.Address] =>
         /\ Has(currentContracts, newLog.Address)
         /\ currentContracts[newLog.Address] = newExt

\* the approval vote is about to be submitted for a record that a
\* cancellation has removed in the meantime, while the completion handler
\* holds the lock
C20_Witness ==
  /\ pc["new"] = "Vote"
  /\ ~Has(currentContracts, newLog.Address)
  /\ ~lastCreated[newLog.Address]
  /\ mu = "comp"

\* C21: run side by side on the same logs with the same outcomes of every
\* call, the two variants always have equal registries and have passed the
\* same snapshots to Save in the same order.
C21_VariantsAgree ==
  /\ twin["backend"].reg = twin["part_000"].reg
  /\ twin["backend"].saves = twin["part_000"].saves

====
